---- MODULE Spec2Model ----
(***************************************************************************)
(* Model of BoardState, the chess rules engine of chess-trainer.           *)
(*                                                                         *)
(* Strings of the program are sequences of character codes (a square such  *)
(* as "e4" is <<101, 52>>, the value "-" is <<45>>); a piece is the pair   *)
(* of its two characters (<<"w", "p">> for "wp", <<"e", "e">> for "ee").   *)
(* Arrays are indexed from 0 as in the program: position[file][rank].      *)
(*                                                                         *)
(* A function of the program that can end by a TypeError (reading a        *)
(* property of undefined) returns [threw, value] here.                     *)
(***************************************************************************)
EXTENDS Integers, Sequences, FiniteSets, TLC

\* Largest number of moves executed in one game of the model.
MaxMoves == 8

\* Largest number of moves executed in one game of Fool's Mate and queries.
MaxFoolsMateMoves == 6

\* Largest value of numberOfFullMoves in the game of the king's walk.
MaxKingWalkMoves == 12

\* Largest number of moves executed by clicks on the board of the page.
MaxClickMoves == 5

----------------------------------------------------------------------------
\* Pieces

ee == <<"e", "e">>
wp == <<"w", "p">>
wr == <<"w", "r">>
wn == <<"w", "n">>
wb == <<"w", "b">>
wq == <<"w", "q">>
wk == <<"w", "k">>
bp == <<"b", "p">>
br == <<"b", "r">>
bn == <<"b", "n">>
bb == <<"b", "b">>
bq == <<"b", "q">>
bk == <<"b", "k">>

\* The value "-" of twoSquarePawnMove.
NoSquare == <<45>>

\* position as the constructor sets it: one row per file, a1 first.
InitialPosition ==
  LET rows == << <<wr, wp, ee, ee, ee, ee, bp, br>>,
                 <<wn, wp, ee, ee, ee, ee, bp, bn>>,
                 <<wb, wp, ee, ee, ee, ee, bp, bb>>,
                 <<wq, wp, ee, ee, ee, ee, bp, bq>>,
                 <<wk, wp, ee, ee, ee, ee, bp, bk>>,
                 <<wb, wp, ee, ee, ee, ee, bp, bb>>,
                 <<wn, wp, ee, ee, ee, ee, bp, bn>>,
                 <<wr, wp, ee, ee, ee, ee, bp, br>> >>
  IN [file \in 0..7 |-> [rank \in 0..7 |-> rows[file + 1][rank + 1]]]

----------------------------------------------------------------------------
\* Squares

\* String(n) of a number 0..99, as the + of a string and a number makes it.
NumberToString(n) ==
  IF n < 10 THEN <<48 + n>> ELSE <<48 + (n \div 10), 48 + (n % 10)>>

\* parseInt of a one-digit string.
parseInt(s) == s[1] - 48

fileFromSquare(square) == square[1] - 97

rankFromSquare(square) == parseInt(<<square[2]>>) - 1

squareFromFileRank(file, rank) == <<97 + file>> \o NumberToString(rank + 1)

\* Whether [file][rank] is an element of the 8x8 array.
InRange(file, rank) == file \in 0..7 /\ rank \in 0..7

_getPieceOnSquare(b, square) ==
  b.position[fileFromSquare(square)][rankFromSquare(square)]

setPieceOnSquare(pos, square, piece) ==
  [pos EXCEPT ![fileFromSquare(square)][rankFromSquare(square)] = piece]

\* A returned value and a thrown TypeError.
Ret(v) == [threw |-> FALSE, value |-> v]
Thrown(v) == [threw |-> TRUE, value |-> v]

\* F(v), the value v being computed once: a local variable of the program.
Let(v, F(_)) == CHOOSE r \in {F(x) : x \in {v}} : TRUE

\* moves.push(square) under a condition.
PushIf(cond, square) == IF cond THEN <<square>> ELSE <<>>

----------------------------------------------------------------------------
\* Pseudo-legal move generation.  b is a BoardState: the record of its fields.

\* The value of an array element that does not exist.
undefined == <<>>

\* position[file][rank], file being a row of the array.
At(pos, file, rank) == IF rank \in 0..7 THEN pos[file][rank] ELSE undefined

\* The elements position[file][rank] a pawn's generation reads, as index pairs.
PawnReads(b, square) ==
  LET file == fileFromSquare(square)
      rank == rankFromSquare(square)
      pos == b.position
      piece == pos[file][rank]
      fwd == IF piece[1] = "w" THEN 1 ELSE -1
      home == IF piece[1] = "w" THEN 1 ELSE 6
      hasNext == IF piece[1] = "w" THEN rank < 7 ELSE rank > 0
  IN {<<file, rank>>}
     \cup (IF piece = ee THEN {}
           ELSE (IF rank = home THEN {<<file, rank + fwd>>} ELSE {})
                \cup (IF rank = home /\ pos[file][rank + fwd] = ee
                      THEN {<<file, rank + 2 * fwd>>} ELSE {})
                \cup (IF hasNext THEN {<<file, rank + fwd>>} ELSE {})
                \cup (IF file > 0 THEN {<<file - 1, rank + fwd>>} ELSE {})
                \cup (IF file < 7 THEN {<<file + 1, rank + fwd>>} ELSE {}))

getPawnPseudoLegalMoves(b, square) ==
  LET file == fileFromSquare(square)
      rank == rankFromSquare(square)
      pos == b.position
      piece == pos[file][rank]
  IN IF piece = ee THEN Ret(<<>>)
     ELSE IF piece[1] = "w" THEN
       \* position[file -+ 1][rank + 1][0] of an undefined element throws
       IF \/ file > 0 /\ At(pos, file - 1, rank + 1) = undefined
          \/ file < 7 /\ At(pos, file + 1, rank + 1) = undefined
       THEN Thrown(<<>>)
       ELSE Ret(
         \* two-square move
         PushIf(rank = 1 /\ pos[file][rank + 1] = ee /\ pos[file][rank + 2] = ee,
                squareFromFileRank(file, rank + 2))
         \* normal move
         \o PushIf(rank < 7 /\ pos[file][rank + 1] = ee,
                   squareFromFileRank(file, rank + 1))
         \* en passant
         \o PushIf(rank = 4 /\ file > 0
                   /\ b.twoSquarePawnMove = squareFromFileRank(file - 1, rank),
                   squareFromFileRank(file - 1, rank + 1))
         \o PushIf(rank = 4 /\ file < 7
                   /\ b.twoSquarePawnMove = squareFromFileRank(file + 1, rank),
                   squareFromFileRank(file + 1, rank + 1))
         \* attacking moves
         \o PushIf(file > 0 /\ pos[file - 1][rank + 1] # ee
                   /\ pos[file - 1][rank + 1][1] # piece[1],
                   squareFromFileRank(file - 1, rank + 1))
         \o PushIf(file < 7 /\ pos[file + 1][rank + 1] # ee
                   /\ pos[file + 1][rank + 1][1] # piece[1],
                   squareFromFileRank(file + 1, rank + 1)))
     ELSE
       IF \/ file > 0 /\ At(pos, file - 1, rank - 1) = undefined
          \/ file < 7 /\ At(pos, file + 1, rank - 1) = undefined
       THEN Thrown(<<>>)
       ELSE Ret(
         \* two-square move
         PushIf(rank = 6 /\ pos[file][rank - 1] = ee /\ pos[file][rank - 2] = ee,
                squareFromFileRank(file, rank - 2))
         \* normal move
         \o PushIf(rank > 0 /\ pos[file][rank - 1] = ee,
                   squareFromFileRank(file, rank - 1))
         \* en passant
         \o PushIf(rank = 3 /\ file > 0
                   /\ b.twoSquarePawnMove = squareFromFileRank(file - 1, rank),
                   squareFromFileRank(file - 1, rank - 1))
         \o PushIf(rank = 3 /\ file < 7
                   /\ b.twoSquarePawnMove = squareFromFileRank(file + 1, rank),
                   squareFromFileRank(file + 1, rank - 1))
         \* attacking moves
         \o PushIf(file > 0 /\ pos[file - 1][rank - 1] # ee
                   /\ pos[file - 1][rank - 1][1] # piece[1],
                   squareFromFileRank(file - 1, rank - 1))
         \o PushIf(file < 7 /\ pos[file + 1][rank - 1] # ee
                   /\ pos[file + 1][rank - 1][1] # piece[1],
                   squareFromFileRank(file + 1, rank - 1)))

\* Ray going on behind a piece of the other color.
RECURSIVE Ray_ThroughPieces(_, _, _, _, _, _)
Ray_ThroughPieces(pos, color, f, r, df, dr) ==
  IF ~InRange(f, r) THEN <<>>
  ELSE IF pos[f][r][1] = color THEN <<>>
  ELSE <<squareFromFileRank(f, r)>>
       \o Ray_ThroughPieces(pos, color, f + df, r + dr, df, dr)

\* One loop of a rook or a bishop: the squares from (f, r) on in steps of
\* (df, dr), up to the edge, a piece of the color (excluded) or another piece
\* (included).
RECURSIVE Ray(_, _, _, _, _, _)
Ray(pos, color, f, r, df, dr) ==
  IF ~InRange(f, r) THEN <<>>
  ELSE IF pos[f][r][1] = color THEN <<>>
  ELSE <<squareFromFileRank(f, r)>>
       \o (IF pos[f][r] # ee THEN <<>>
           ELSE Ray(pos, color, f + df, r + dr, df, dr))

\* The elements one loop reads.
RECURSIVE RayReads(_, _, _, _, _, _)
RayReads(pos, color, f, r, df, dr) ==
  IF ~InRange(f, r) THEN {}
  ELSE {<<f, r>>}
       \cup (IF pos[f][r] # ee THEN {}
             ELSE RayReads(pos, color, f + df, r + dr, df, dr))

getRookPseudoLegalMoves(b, square) ==
  LET file == fileFromSquare(square)
      rank == rankFromSquare(square)
      piece == b.position[file][rank]
  IN IF piece = ee THEN <<>>
     ELSE Ray(b.position, piece[1], file + 1, rank, 1, 0)       \* right
          \o Ray(b.position, piece[1], file - 1, rank, -1, 0)   \* left
          \o Ray(b.position, piece[1], file, rank + 1, 0, 1)    \* up
          \o Ray(b.position, piece[1], file, rank - 1, 0, -1)   \* down

RookReads(b, square) ==
  LET file == fileFromSquare(square)
      rank == rankFromSquare(square)
      piece == b.position[file][rank]
  IN {<<file, rank>>}
     \cup (IF piece = ee THEN {}
           ELSE RayReads(b.position, piece[1], file + 1, rank, 1, 0)
                \cup RayReads(b.position, piece[1], file - 1, rank, -1, 0)
                \cup RayReads(b.position, piece[1], file, rank + 1, 0, 1)
                \cup RayReads(b.position, piece[1], file, rank - 1, 0, -1))

\* The eight jumps of a knight as (file, rank) offsets with the guard of each,
\* in the order of the source.
KnightJumps(file, rank) ==
  << <<-1, 2, file > 0 /\ rank < 6>>, <<1, 2, file < 7 /\ rank < 6>>,
     <<-1, -2, file > 0 /\ rank > 1>>, <<1, -2, file < 7 /\ rank > 1>>,
     <<-2, 1, file > 1 /\ rank < 7>>, <<2, 1, file < 6 /\ rank < 7>>,
     <<-2, -1, file > 1 /\ rank > 0>>, <<2, -1, file < 6 /\ rank > 0>> >>

RECURSIVE KnightFrom(_, _, _, _, _)
KnightFrom(pos, piece, file, rank, i) ==
  IF i > 8 THEN <<>>
  ELSE LET j == KnightJumps(file, rank)[i]
       IN PushIf(j[3] /\ pos[file + j[1]][rank + j[2]][1] # piece[1],
                 squareFromFileRank(file + j[1], rank + j[2]))
          \o KnightFrom(pos, piece, file, rank, i + 1)

getKnightPseudoLegalMoves(b, square) ==
  LET file == fileFromSquare(square)
      rank == rankFromSquare(square)
      piece == b.position[file][rank]
  IN IF piece = ee THEN <<>>
     ELSE KnightFrom(b.position, piece, file, rank, 1)

KnightReads(b, square) ==
  LET file == fileFromSquare(square)
      rank == rankFromSquare(square)
      piece == b.position[file][rank]
  IN {<<file, rank>>}
     \cup (IF piece = ee THEN {}
           ELSE {<<file + KnightJumps(file, rank)[i][1],
                   rank + KnightJumps(file, rank)[i][2]>> :
                    i \in {k \in 1..8 : KnightJumps(file, rank)[k][3]}})

getBishopPseudoLegalMoves(b, square) ==
  LET file == fileFromSquare(square)
      rank == rankFromSquare(square)
      piece == b.position[file][rank]
  IN IF piece = ee THEN <<>>
     ELSE Ray(b.position, piece[1], file + 1, rank + 1, 1, 1)       \* up right
          \o Ray(b.position, piece[1], file + 1, rank - 1, 1, -1)   \* down right
          \o Ray(b.position, piece[1], file - 1, rank - 1, -1, -1)  \* down left
          \o Ray(b.position, piece[1], file - 1, rank + 1, -1, 1)   \* up left

BishopReads(b, square) ==
  LET file == fileFromSquare(square)
      rank == rankFromSquare(square)
      piece == b.position[file][rank]
  IN {<<file, rank>>}
     \cup (IF piece = ee THEN {}
           ELSE RayReads(b.position, piece[1], file + 1, rank + 1, 1, 1)
                \cup RayReads(b.position, piece[1], file + 1, rank - 1, 1, -1)
                \cup RayReads(b.position, piece[1], file - 1, rank - 1, -1, -1)
                \cup RayReads(b.position, piece[1], file - 1, rank + 1, -1, 1))

getQueenPseudoLegalMoves(b, square) ==
  getRookPseudoLegalMoves(b, square) \o getBishopPseudoLegalMoves(b, square)

\* The normal moves of a king: the loops over i and j, flattened to k = 0..8.
RECURSIVE KingSteps(_, _, _, _, _)
KingSteps(pos, piece, file, rank, k) ==
  IF k > 8 THEN <<>>
  ELSE LET i == (k \div 3) - 1
           j == (k % 3) - 1
           f == file - i
           r == rank - j
       IN PushIf(~(i = 0 /\ j = 0) /\ 0 <= f /\ f < 8 /\ 0 <= r /\ r < 8
                 /\ pos[f][r][1] # piece[1],
                 squareFromFileRank(f, r))
          \o KingSteps(pos, piece, file, rank, k + 1)

\* getKingPseudoLegalMoves without the tests of the squares between king and
\* rook.
getKingPseudoLegalMoves_NoEmptyTest(b, square) ==
  LET file == fileFromSquare(square)
      rank == rankFromSquare(square)
      pos == b.position
      piece == pos[file][rank]
  IN IF piece = ee THEN <<>>
     ELSE KingSteps(pos, piece, file, rank, 0)
          \o PushIf(piece[1] = "w" /\ b.whiteCastleQueensideAvailable,
                    squareFromFileRank(2, 0))
          \o PushIf(piece[1] = "w" /\ b.whiteCastleKingsideAvailable,
                    squareFromFileRank(6, 0))
          \o PushIf(piece[1] = "b" /\ b.blackCastleQueensideAvailable,
                    squareFromFileRank(2, 7))
          \o PushIf(piece[1] = "b" /\ b.blackCastleKingsideAvailable,
                    squareFromFileRank(6, 7))

getKingPseudoLegalMoves(b, square) ==
  LET file == fileFromSquare(square)
      rank == rankFromSquare(square)
      pos == b.position
      piece == pos[file][rank]
  IN IF piece = ee THEN <<>>
     ELSE KingSteps(pos, piece, file, rank, 0)
          \* castles
          \o PushIf(piece[1] = "w" /\ b.whiteCastleQueensideAvailable
                    /\ pos[1][0] = ee /\ pos[2][0] = ee /\ pos[3][0] = ee,
                    squareFromFileRank(2, 0))
          \o PushIf(piece[1] = "w" /\ b.whiteCastleKingsideAvailable
                    /\ pos[5][0] = ee /\ pos[6][0] = ee,
                    squareFromFileRank(6, 0))
          \o PushIf(piece[1] = "b" /\ b.blackCastleQueensideAvailable
                    /\ pos[1][7] = ee /\ pos[2][7] = ee /\ pos[3][7] = ee,
                    squareFromFileRank(2, 7))
          \o PushIf(piece[1] = "b" /\ b.blackCastleKingsideAvailable
                    /\ pos[5][7] = ee /\ pos[6][7] = ee,
                    squareFromFileRank(6, 7))

KingReads(b, square) ==
  LET file == fileFromSquare(square)
      rank == rankFromSquare(square)
      piece == b.position[file][rank]
  IN {<<file, rank>>}
     \cup (IF piece = ee THEN {}
           ELSE {<<file - i, rank - j>> :
                   <<i, j>> \in {ij \in (-1..1) \X (-1..1) :
                                   /\ ij # <<0, 0>>
                                   /\ 0 <= file - ij[1] /\ file - ij[1] < 8
                                   /\ 0 <= rank - ij[2] /\ rank - ij[2] < 8}}
                \cup (IF piece[1] = "w" /\ b.whiteCastleQueensideAvailable
                      THEN {<<1, 0>>, <<2, 0>>, <<3, 0>>} ELSE {})
                \cup (IF piece[1] = "w" /\ b.whiteCastleKingsideAvailable
                      THEN {<<5, 0>>, <<6, 0>>} ELSE {})
                \cup (IF piece[1] = "b" /\ b.blackCastleQueensideAvailable
                      THEN {<<1, 7>>, <<2, 7>>, <<3, 7>>} ELSE {})
                \cup (IF piece[1] = "b" /\ b.blackCastleKingsideAvailable
                      THEN {<<5, 7>>, <<6, 7>>} ELSE {}))

\* The dispatch on the kind of the piece.
getPseudoLegalMoves(b, square) ==
  LET piece == _getPieceOnSquare(b, square)
  IN IF piece = ee THEN Ret(<<>>)
     ELSE CASE piece[2] = "p" -> getPawnPseudoLegalMoves(b, square)
            [] piece[2] = "r" -> Ret(getRookPseudoLegalMoves(b, square))
            [] piece[2] = "n" -> Ret(getKnightPseudoLegalMoves(b, square))
            [] piece[2] = "b" -> Ret(getBishopPseudoLegalMoves(b, square))
            [] piece[2] = "q" -> Ret(getQueenPseudoLegalMoves(b, square))
            [] piece[2] = "k" -> Ret(getKingPseudoLegalMoves(b, square))
            [] OTHER -> Ret(<<>>)

\* The elements of position that getPseudoLegalMoves(square) reads.
PseudoLegalReads(b, square) ==
  LET piece == _getPieceOnSquare(b, square)
  IN IF piece = ee THEN {<<fileFromSquare(square), rankFromSquare(square)>>}
     ELSE CASE piece[2] = "p" -> PawnReads(b, square)
            [] piece[2] = "r" -> RookReads(b, square)
            [] piece[2] = "n" -> KnightReads(b, square)
            [] piece[2] = "b" -> BishopReads(b, square)
            [] piece[2] = "q" -> RookReads(b, square) \cup BishopReads(b, square)
            [] piece[2] = "k" -> KingReads(b, square)
            [] OTHER -> {}

\* array.includes(x)
Includes(array, x) == \E i \in 1..Len(array) : array[i] = x

moveIsPseudoLegal(b, fromSquare, toSquare) ==
  Let(getPseudoLegalMoves(b, fromSquare), LAMBDA moves :
    IF moves.threw THEN Thrown(FALSE)
    ELSE Ret(Includes(moves.value, toSquare)))

----------------------------------------------------------------------------
\* Move execution

\* The outcome of a call of playLegalMove or playPseudoLegalMove: the state it
\* leaves, and whether the move was executed, rejected with the console
\* message, or the call ended by a TypeError.
Outcome(b, result) == [state |-> b, result |-> result]

\* SwapColor with both branches assigning "b".
SwapColor_AlwaysBlack(color) == "b"

\* swap active player color
SwapColor(color) == IF color = "w" THEN "b" ELSE "w"

\* Touches without the test of toSquare.
Touches_FromOnly(fromSquare, toSquare, square) == fromSquare = square

\* fromSquare === square || toSquare === square
Touches(fromSquare, toSquare, square) == fromSquare = square \/ toSquare = square

\* Revoke as an assignment of the negated test.
Revoke_Assign(available, touched) == ~touched

\* A castling flag after the ifs that set it to false.
Revoke(available, touched) == IF touched THEN FALSE ELSE available

\* NewTwoSquarePawnMove without the test of the moving piece.
NewTwoSquarePawnMove_AnyPiece(b, fromPiece, fromSquare, toSquare) ==
  LET d == rankFromSquare(fromSquare) - rankFromSquare(toSquare)
      abs == IF d < 0 THEN -d ELSE d
  IN IF abs > 1 THEN toSquare ELSE NoSquare

\* NewTwoSquarePawnMove without the else branch.
NewTwoSquarePawnMove_NoElse(b, fromPiece, fromSquare, toSquare) ==
  LET d == rankFromSquare(fromSquare) - rankFromSquare(toSquare)
      abs == IF d < 0 THEN -d ELSE d
  IN IF fromPiece[2] = "p" /\ abs > 1 THEN toSquare ELSE b.twoSquarePawnMove

\* save two square pawn move
NewTwoSquarePawnMove(b, fromPiece, fromSquare, toSquare) ==
  LET d == rankFromSquare(fromSquare) - rankFromSquare(toSquare)
      abs == IF d < 0 THEN -d ELSE d
  IN IF fromPiece[2] = "p" /\ abs > 1 THEN toSquare ELSE NoSquare

\* NewNumberOfFullMoves counting a move only after black has moved.
NewNumberOfFullMoves_AfterBlack(b) ==
  IF b.activeColor = "b" THEN b.numberOfFullMoves + 1 ELSE b.numberOfFullMoves

\* update full moves counter
NewNumberOfFullMoves(b) == b.numberOfFullMoves + 1

\* NewNumberOfHalfMoves without the test of the moving piece.
NewNumberOfHalfMoves_CaptureOnly(b, fromPiece, toPiece) ==
  IF toPiece # ee /\ fromPiece[1] # toPiece[1]
  THEN 0 ELSE b.numberOfHalfMoves + 1

\* update half moves counter
NewNumberOfHalfMoves(b, fromPiece, toPiece) ==
  IF (toPiece # ee /\ fromPiece[1] # toPiece[1]) \/ fromPiece[2] = "p"
  THEN 0 ELSE b.numberOfHalfMoves + 1

\* move pieces, delete pawn captured by en passant, move rook when castling
NewPosition(b, fromPiece, fromSquare, toSquare) ==
  LET p1 == setPieceOnSquare(b.position, toSquare, fromPiece)
      p2 == setPieceOnSquare(p1, fromSquare, ee)
      p3 == IF fromPiece[2] = "p" /\ fromSquare[1] # toSquare[1]
            THEN setPieceOnSquare(p2, <<toSquare[1], fromSquare[2]>>, ee)
            ELSE p2
      p4 == IF fromPiece[2] = "k" /\ toSquare[1] = 99
            THEN setPieceOnSquare(
                   setPieceOnSquare(p3, <<100, toSquare[2]>>,
                                    p3[0][rankFromSquare(<<97, toSquare[2]>>)]),
                   <<97, toSquare[2]>>, ee)
            ELSE p3
  IN IF fromPiece[2] = "k" /\ toSquare[1] = 103
     THEN setPieceOnSquare(
            setPieceOnSquare(p4, <<102, toSquare[2]>>,
                             p4[7][rankFromSquare(<<104, toSquare[2]>>)]),
            <<104, toSquare[2]>>, ee)
     ELSE p4

\* The execution of a move that passed the test of playPseudoLegalMove.
ExecuteMove(b, fromSquare, toSquare) ==
  LET fromPiece == _getPieceOnSquare(b, fromSquare)
      toPiece == _getPieceOnSquare(b, toSquare)
      touches(square) == Touches(fromSquare, toSquare, square)
      a1 == <<97, 49>>
      e1 == <<101, 49>>
      h1 == <<104, 49>>
      a8 == <<97, 56>>
      e8 == <<101, 56>>
      h8 == <<104, 56>>
  IN [position |-> NewPosition(b, fromPiece, fromSquare, toSquare),
      activeColor |-> SwapColor(b.activeColor),
      \* update castling availability
      whiteCastleQueensideAvailable |->
        Revoke(Revoke(b.whiteCastleQueensideAvailable, touches(a1)), touches(e1)),
      whiteCastleKingsideAvailable |->
        Revoke(Revoke(b.whiteCastleKingsideAvailable, touches(h1)), touches(e1)),
      blackCastleQueensideAvailable |->
        Revoke(Revoke(b.blackCastleQueensideAvailable, touches(a8)), touches(e8)),
      blackCastleKingsideAvailable |->
        Revoke(Revoke(b.blackCastleKingsideAvailable, touches(h8)), touches(e8)),
      twoSquarePawnMove |->
        NewTwoSquarePawnMove(b, fromPiece, fromSquare, toSquare),
      numberOfFullMoves |-> NewNumberOfFullMoves(b),
      numberOfHalfMoves |-> NewNumberOfHalfMoves(b, fromPiece, toPiece),
      \* update king square
      whiteKingSquare |-> IF fromPiece = wk THEN toSquare ELSE b.whiteKingSquare,
      blackKingSquare |-> IF fromPiece = bk THEN toSquare ELSE b.blackKingSquare]

playPseudoLegalMove(b, fromSquare, toSquare) ==
  Let(moveIsPseudoLegal(b, fromSquare, toSquare), LAMBDA ok :
    IF ok.threw THEN Outcome(b, "threw")
    ELSE IF ~ok.value THEN Outcome(b, "rejected")
    ELSE Outcome(ExecuteMove(b, fromSquare, toSquare), "accepted"))

\* copy(): a new BoardState with a new position array, element by element.
copy(b) ==
  [position |-> [file \in 0..7 |-> [rank \in 0..7 |-> b.position[file][rank]]],
   activeColor |-> b.activeColor,
   blackCastleKingsideAvailable |-> b.blackCastleKingsideAvailable,
   blackCastleQueensideAvailable |-> b.blackCastleQueensideAvailable,
   whiteCastleKingsideAvailable |-> b.whiteCastleKingsideAvailable,
   whiteCastleQueensideAvailable |-> b.whiteCastleQueensideAvailable,
   twoSquarePawnMove |-> b.twoSquarePawnMove,
   numberOfHalfMoves |-> b.numberOfHalfMoves,
   numberOfFullMoves |-> b.numberOfFullMoves,
   blackKingSquare |-> b.blackKingSquare,
   whiteKingSquare |-> b.whiteKingSquare]

----------------------------------------------------------------------------
\* Check detection and legal moves

\* The elements i = 8 * file + rank, in the order of the loops of
\* kingIsInCheck, at which the loops end: a piece of the other color whose
\* moves throw or include the square of the king.
CheckScanEnds(b, color, kingSquare) ==
  {i \in 0..63 :
     LET file == i \div 8
         rank == i % 8
         piece == b.position[file][rank]
     IN IF piece[1] = color \/ piece = ee THEN FALSE
        ELSE Let(getPseudoLegalMoves(b, squareFromFileRank(file, rank)),
                 LAMBDA moves : moves.threw \/ Includes(moves.value, kingSquare))}

kingIsInCheck(b, color) ==
  LET kingSquare == IF color = "w" THEN b.whiteKingSquare ELSE b.blackKingSquare
  IN Let(CheckScanEnds(b, color, kingSquare), LAMBDA ends :
       IF ends = {} THEN Ret(FALSE)
       ELSE LET first == CHOOSE i \in ends : \A k \in ends : i <= k
                moves == getPseudoLegalMoves(
                           b, squareFromFileRank(first \div 8, first % 8))
            IN IF moves.threw THEN Thrown(FALSE) ELSE Ret(TRUE))

kingWouldBeInCheck(b, color, fromSquare, toSquare) ==
  Let(copy(b), LAMBDA boardStateCopy :
    Let(playPseudoLegalMove(boardStateCopy, fromSquare, toSquare), LAMBDA played :
      IF played.result = "threw" THEN Thrown(FALSE)
      ELSE kingIsInCheck(played.state, color)))

\* The moves of pseudo, from the i-th on, whose test did not find a check.
RECURSIVE LegalFrom(_, _, _)
LegalFrom(pseudo, inCheck, i) ==
  IF i > Len(pseudo) THEN <<>>
  ELSE PushIf(~inCheck[i].value, pseudo[i]) \o LegalFrom(pseudo, inCheck, i + 1)

\* LegalAmong pushing square in place of toSquare.
LegalAmong_PushSquare(b, square, pseudo) ==
  Let([i \in 1..Len(pseudo) |->
         kingWouldBeInCheck(b, b.activeColor, square, pseudo[i])],
      LAMBDA inCheck :
        IF \E i \in 1..Len(pseudo) : inCheck[i].threw THEN Thrown(<<>>)
        ELSE Ret(LegalFrom([i \in 1..Len(pseudo) |-> square], inCheck, 1)))

\* The loop of getLegalMoves over the pseudo-legal moves of square.
LegalAmong(b, square, pseudo) ==
  Let([i \in 1..Len(pseudo) |->
         kingWouldBeInCheck(b, b.activeColor, square, pseudo[i])],
      LAMBDA inCheck :
        IF \E i \in 1..Len(pseudo) : inCheck[i].threw THEN Thrown(<<>>)
        ELSE Ret(LegalFrom(pseudo, inCheck, 1)))

getLegalMoves(b, square) ==
  Let(getPseudoLegalMoves(b, square), LAMBDA pseudo :
    IF pseudo.threw THEN Thrown(<<>>)
    ELSE LegalAmong(b, square, pseudo.value))

moveIsLegal(b, fromSquare, toSquare) ==
  Let(getLegalMoves(b, fromSquare), LAMBDA moves :
    IF moves.threw THEN Thrown(FALSE)
    ELSE Ret(Includes(moves.value, toSquare)))

\* playLegalMove without its test.
playLegalMove_NoTest(b, fromSquare, toSquare) ==
  playPseudoLegalMove(b, fromSquare, toSquare)

playLegalMove(b, fromSquare, toSquare) ==
  Let(moveIsLegal(b, fromSquare, toSquare), LAMBDA ok :
    IF ok.threw THEN Outcome(b, "threw")
    ELSE IF ~ok.value THEN Outcome(b, "rejected")
    ELSE playPseudoLegalMove(b, fromSquare, toSquare))

----------------------------------------------------------------------------
\* Checkmate and stalemate

\* The loop over the ranks of one file in playerHasLegalMoves, from rank on:
\* "found" at the first square of color with a legal move, "threw" if the
\* legal moves of a square of color throw first, "none" at the end of the file.
RECURSIVE ScanRanks(_, _, _, _)
ScanRanks(b, color, file, rank) ==
  IF rank > 7 THEN "none"
  ELSE IF b.position[file][rank][1] # color
       THEN ScanRanks(b, color, file, rank + 1)
       ELSE Let(getLegalMoves(b, squareFromFileRank(file, rank)), LAMBDA moves :
              IF moves.threw THEN "threw"
              ELSE IF Len(moves.value) > 0 THEN "found"
              ELSE ScanRanks(b, color, file, rank + 1))

\* The loop over the files in playerHasLegalMoves, from file on.
RECURSIVE ScanFiles(_, _, _)
ScanFiles(b, color, file) ==
  IF file > 7 THEN "none"
  ELSE Let(ScanRanks(b, color, file, 0), LAMBDA end :
         IF end = "none" THEN ScanFiles(b, color, file + 1) ELSE end)

playerHasLegalMoves(b, color) ==
  Let(ScanFiles(b, color, 0), LAMBDA end :
    IF end = "threw" THEN Thrown(FALSE) ELSE Ret(end = "found"))

\* isCheckmate with the test of the king negated.
isCheckmate_NotInCheck(b) ==
  Let(playerHasLegalMoves(b, b.activeColor), LAMBDA has :
    IF has.threw THEN Thrown(FALSE)
    ELSE IF has.value THEN Ret(FALSE)
    ELSE Let(kingIsInCheck(b, b.activeColor), LAMBDA check :
           IF check.threw THEN Thrown(FALSE) ELSE Ret(~check.value)))

\* !playerHasLegalMoves(activeColor) && kingIsInCheck(activeColor)
isCheckmate(b) ==
  Let(playerHasLegalMoves(b, b.activeColor), LAMBDA has :
    IF has.threw THEN Thrown(FALSE)
    ELSE IF has.value THEN Ret(FALSE)
    ELSE Let(kingIsInCheck(b, b.activeColor), LAMBDA check :
           IF check.threw THEN Thrown(FALSE) ELSE Ret(check.value)))

\* !playerHasLegalMoves(activeColor) && !kingIsInCheck(activeColor)
isStalemate(b) ==
  Let(playerHasLegalMoves(b, b.activeColor), LAMBDA has :
    IF has.threw THEN Thrown(FALSE)
    ELSE IF has.value THEN Ret(FALSE)
    ELSE Let(kingIsInCheck(b, b.activeColor), LAMBDA check :
           IF check.threw THEN Thrown(FALSE) ELSE Ret(~check.value)))

----------------------------------------------------------------------------
\* Queries of the board and the FEN string

getActivePlayer(b) == b.activeColor

\* squareHasPieceOfActivePlayer without the comparison with activeColor.
squareHasPieceOfActivePlayer_AnyColor(b, square) ==
  b.position[fileFromSquare(square)][rankFromSquare(square)] # ee

squareHasPieceOfActivePlayer(b, square) ==
  b.position[fileFromSquare(square)][rankFromSquare(square)][1] = b.activeColor

null == <<"null">>

getPieceOnSquare(b, square) ==
  LET piece == _getPieceOnSquare(b, square)
  IN IF piece = ee THEN null ELSE piece

\* The character a color is: "w" or "b".
ColorString(color) == IF color = "w" THEN <<119>> ELSE <<98>>

\* PieceLetter with the letters of both colors in upper case.
PieceLetter_UpperCase(piece) ==
  CASE piece[2] = "p" -> <<80>>
    [] piece[2] = "r" -> <<82>>
    [] piece[2] = "n" -> <<78>>
    [] piece[2] = "b" -> <<66>>
    [] piece[2] = "q" -> <<81>>
    [] piece[2] = "k" -> <<75>>
    [] OTHER -> <<>>

\* What the switch of getFENPieces adds to result for a piece: P R N B Q K for
\* white, p r n b q k for black, nothing for "ee".
PieceLetter(piece) ==
  CASE piece = wp -> <<80>>
    [] piece = wr -> <<82>>
    [] piece = wn -> <<78>>
    [] piece = wb -> <<66>>
    [] piece = wq -> <<81>>
    [] piece = wk -> <<75>>
    [] piece = bp -> <<112>>
    [] piece = br -> <<114>>
    [] piece = bn -> <<110>>
    [] piece = bb -> <<98>>
    [] piece = bq -> <<113>>
    [] piece = bk -> <<107>>
    [] OTHER -> <<>>

\* The loop of getFENPieces over the files of one rank, from file on, with
\* emptySquareCounter as it is on entry.
RECURSIVE FENRank(_, _, _, _)
FENRank(pos, rank, file, emptySquareCounter) ==
  IF file > 7
  THEN IF emptySquareCounter > 0 THEN NumberToString(emptySquareCounter) ELSE <<>>
  ELSE LET piece == pos[file][rank]
       IN IF piece = ee
          THEN FENRank(pos, rank, file + 1, emptySquareCounter + 1)
          ELSE (IF emptySquareCounter > 0
                THEN NumberToString(emptySquareCounter) ELSE <<>>)
               \o PieceLetter(piece)
               \o FENRank(pos, rank, file + 1, 0)

\* The loop of getFENPieces over the ranks, from rank down.
RECURSIVE FENRanks(_, _)
FENRanks(pos, rank) ==
  IF rank < 0 THEN <<>>
  ELSE FENRank(pos, rank, 0, 0)
       \o (IF rank > 0 THEN <<47>> ELSE <<>>)
       \o FENRanks(pos, rank - 1)

getFENPieces(b) == FENRanks(b.position, 7)

\* getFENCastling with the rights of black before those of white.
getFENCastling_BlackFirst(b) ==
  LET result == (IF b.blackCastleKingsideAvailable THEN <<107>> ELSE <<>>)
                \o (IF b.blackCastleQueensideAvailable THEN <<113>> ELSE <<>>)
                \o (IF b.whiteCastleKingsideAvailable THEN <<75>> ELSE <<>>)
                \o (IF b.whiteCastleQueensideAvailable THEN <<81>> ELSE <<>>)
  IN IF result = <<>> THEN <<45>> ELSE result

getFENCastling(b) ==
  LET result == (IF b.whiteCastleKingsideAvailable THEN <<75>> ELSE <<>>)
                \o (IF b.whiteCastleQueensideAvailable THEN <<81>> ELSE <<>>)
                \o (IF b.blackCastleKingsideAvailable THEN <<107>> ELSE <<>>)
                \o (IF b.blackCastleQueensideAvailable THEN <<113>> ELSE <<>>)
  IN IF result = <<>> THEN <<45>> ELSE result

getFEN(b) ==
  getFENPieces(b) \o <<32>> \o ColorString(b.activeColor) \o <<32>>
  \o getFENCastling(b) \o <<32>> \o b.twoSquarePawnMove \o <<32>>
  \o NumberToString(b.numberOfHalfMoves) \o <<32>>
  \o NumberToString(b.numberOfFullMoves)

----------------------------------------------------------------------------
\* The arrays behind position.  The operators above take a BoardState as a
\* value; here position is an array of arrays in a store, arrays[a] being the
\* array at address a, and an object's position the address of its outer
\* array, so that two objects may share an array.  The operators below give
\* the BoardState a query leaves behind.

\* The BoardState b in a store of its own: the outer array at address 0 and
\* the array of file f at address f + 1.
Store(b) ==
  [arrays |-> [a \in 0..8 |->
                 IF a = 0 THEN [file \in 0..7 |-> file + 1]
                 ELSE b.position[a - 1]],
   object |-> [b EXCEPT !.position = 0]]

\* The BoardState of an object of the store, as a value.
Load(arrays, object) ==
  [object EXCEPT
     !.position = [file \in 0..7 |-> arrays[arrays[object.position][file]]]]

\* copy() with newPosition = [...position]: a new outer array of the same
\* file arrays.
copyInStore_SameFiles(arrays, object) ==
  LET n == Cardinality(DOMAIN arrays)
  IN [arrays |-> [a \in 0..n |->
                    IF a = n THEN arrays[object.position] ELSE arrays[a]],
      object |-> [object EXCEPT !.position = n]]

\* copy(): newPosition is a new outer array (address n) of eight new arrays
\* (addresses n + 1 .. n + 8), filled element by element from position, and
\* the new BoardState is initialized with it and the other fields.
copyInStore(arrays, object) ==
  LET n == Cardinality(DOMAIN arrays)
      old == arrays[object.position]
  IN [arrays |-> [a \in 0..(n + 8) |->
                    IF a < n THEN arrays[a]
                    ELSE IF a = n THEN [file \in 0..7 |-> n + 1 + file]
                    ELSE [rank \in 0..7 |-> arrays[old[a - n - 1]][rank]]],
      object |-> [object EXCEPT !.position = n]]

\* playPseudoLegalMove called on an object of the store: setPieceOnSquare
\* writes position[file][rank], an element of a file array of the object, and
\* the other fields are variables of the object.
playPseudoLegalMoveInStore(arrays, object, fromSquare, toSquare) ==
  Let(playPseudoLegalMove(Load(arrays, object), fromSquare, toSquare),
      LAMBDA played :
        LET files == arrays[object.position]
            written == {files[file] : file \in 0..7}
        IN [arrays |-> [a \in DOMAIN arrays |->
                          IF a \in written
                          THEN played.state.position[
                                 CHOOSE file \in 0..7 : files[file] = a]
                          ELSE arrays[a]],
            object |-> [played.state EXCEPT !.position = object.position],
            result |-> played.result])

\* The BoardState b after kingWouldBeInCheck(color, fromSquare, toSquare) was
\* called on it: the move is played on boardStateCopy.
After_kingWouldBeInCheck(b, color, fromSquare, toSquare) ==
  Let(Store(b), LAMBDA this :
    Let(copyInStore(this.arrays, this.object), LAMBDA boardStateCopy :
      Let(playPseudoLegalMoveInStore(boardStateCopy.arrays,
                                     boardStateCopy.object,
                                     fromSquare, toSquare),
          LAMBDA played : Load(played.arrays, this.object))))

\* The BoardState b after the loop of getLegalMoves(square) from the i-th
\* pseudo-legal move on; the loop ends when a test throws.
RECURSIVE After_LegalAmong(_, _, _, _)
After_LegalAmong(b, square, pseudo, i) ==
  IF i > Len(pseudo) THEN b
  ELSE Let(After_kingWouldBeInCheck(b, b.activeColor, square, pseudo[i]),
           LAMBDA after :
             IF kingWouldBeInCheck(b, b.activeColor, square, pseudo[i]).threw
             THEN after
             ELSE After_LegalAmong(after, square, pseudo, i + 1))

After_getLegalMoves(b, square) ==
  Let(getPseudoLegalMoves(b, square), LAMBDA pseudo :
    IF pseudo.threw THEN b ELSE After_LegalAmong(b, square, pseudo.value, 1))

\* The BoardState after the loop of playerHasLegalMoves over the ranks of one
\* file, from rank on, and how the loop ended (as ScanRanks).
RECURSIVE After_ScanRanks(_, _, _, _)
After_ScanRanks(b, color, file, rank) ==
  IF rank > 7 THEN [state |-> b, end |-> "none"]
  ELSE IF b.position[file][rank][1] # color
       THEN After_ScanRanks(b, color, file, rank + 1)
       ELSE LET square == squareFromFileRank(file, rank)
            IN Let(getLegalMoves(b, square), LAMBDA moves :
                 Let(After_getLegalMoves(b, square), LAMBDA after :
                   IF moves.threw THEN [state |-> after, end |-> "threw"]
                   ELSE IF Len(moves.value) > 0
                        THEN [state |-> after, end |-> "found"]
                        ELSE After_ScanRanks(after, color, file, rank + 1)))

RECURSIVE After_ScanFiles(_, _, _)
After_ScanFiles(b, color, file) ==
  IF file > 7 THEN b
  ELSE Let(After_ScanRanks(b, color, file, 0), LAMBDA scanned :
         IF scanned.end = "none"
         THEN After_ScanFiles(scanned.state, color, file + 1)
         ELSE scanned.state)

After_playerHasLegalMoves(b, color) == After_ScanFiles(b, color, 0)

\* isCheckmate and isStalemate call playerHasLegalMoves and then, if it
\* returned false, kingIsInCheck, which assigns nothing.
After_isCheckmate(b) == After_playerHasLegalMoves(b, b.activeColor)

After_isStalemate(b) == After_playerHasLegalMoves(b, b.activeColor)

----------------------------------------------------------------------------
\* The state machine: one BoardState and the calls made on it.

VARIABLES position, activeColor,
          blackCastleKingsideAvailable, blackCastleQueensideAvailable,
          whiteCastleKingsideAvailable, whiteCastleQueensideAvailable,
          twoSquarePawnMove, numberOfHalfMoves, numberOfFullMoves,
          blackKingSquare, whiteKingSquare,
          lastResult,  \* how the last call ended: accepted, rejected or threw
          lastMove,    \* the last move executed: the operation and its arguments
          foolsMate,   \* how far the calls made follow FoolsMate
          selectedSquare  \* ChessGame's selectedSquare

fields == <<position, activeColor,
            blackCastleKingsideAvailable, blackCastleQueensideAvailable,
            whiteCastleKingsideAvailable, whiteCastleQueensideAvailable,
            twoSquarePawnMove, numberOfHalfMoves, numberOfFullMoves,
            blackKingSquare, whiteKingSquare>>

vars == <<fields, lastResult, lastMove, foolsMate, selectedSquare>>

\* The BoardState as a record.
This ==
  [position |-> position,
   activeColor |-> activeColor,
   blackCastleKingsideAvailable |-> blackCastleKingsideAvailable,
   blackCastleQueensideAvailable |-> blackCastleQueensideAvailable,
   whiteCastleKingsideAvailable |-> whiteCastleKingsideAvailable,
   whiteCastleQueensideAvailable |-> whiteCastleQueensideAvailable,
   twoSquarePawnMove |-> twoSquarePawnMove,
   numberOfHalfMoves |-> numberOfHalfMoves,
   numberOfFullMoves |-> numberOfFullMoves,
   blackKingSquare |-> blackKingSquare,
   whiteKingSquare |-> whiteKingSquare]

\* The fields after a call that leaves the BoardState b.
Becomes(b) ==
  /\ position' = b.position
  /\ activeColor' = b.activeColor
  /\ blackCastleKingsideAvailable' = b.blackCastleKingsideAvailable
  /\ blackCastleQueensideAvailable' = b.blackCastleQueensideAvailable
  /\ whiteCastleKingsideAvailable' = b.whiteCastleKingsideAvailable
  /\ whiteCastleQueensideAvailable' = b.whiteCastleQueensideAvailable
  /\ twoSquarePawnMove' = b.twoSquarePawnMove
  /\ numberOfHalfMoves' = b.numberOfHalfMoves
  /\ numberOfFullMoves' = b.numberOfFullMoves
  /\ blackKingSquare' = b.blackKingSquare
  /\ whiteKingSquare' = b.whiteKingSquare

\* Squares by name.
a1 == squareFromFileRank(0, 0)
b1 == squareFromFileRank(1, 0)
e1 == squareFromFileRank(4, 0)
h1 == squareFromFileRank(7, 0)
c3 == squareFromFileRank(2, 2)
e2 == squareFromFileRank(4, 1)
e4 == squareFromFileRank(4, 3)
d5 == squareFromFileRank(3, 4)
e5 == squareFromFileRank(4, 4)
d6 == squareFromFileRank(3, 5)
e6 == squareFromFileRank(4, 5)
d7 == squareFromFileRank(3, 6)
e7 == squareFromFileRank(4, 6)
a8 == squareFromFileRank(0, 7)
e8 == squareFromFileRank(4, 7)
h8 == squareFromFileRank(7, 7)
f2 == squareFromFileRank(5, 1)
g2 == squareFromFileRank(6, 1)
f3 == squareFromFileRank(5, 2)
g4 == squareFromFileRank(6, 3)
h4 == squareFromFileRank(7, 3)
a6 == squareFromFileRank(0, 5)
c6 == squareFromFileRank(2, 5)
a7 == squareFromFileRank(0, 6)
d8 == squareFromFileRank(3, 7)

Squares == {squareFromFileRank(file, rank) : file \in 0..7, rank \in 0..7}

\* The (fromSquare, toSquare) arguments the calls of the model are made with:
\* the white e-pawn up the board, by an en-passant capture on d6, to e8; the
\* black d- and e-pawn and king; the white queenside knight and rook.
Calls ==
  { <<e2, e4>>, <<e4, e5>>, <<d7, d5>>, <<e5, d6>>, <<d6, d7>>, <<d7, e8>>,
    <<e7, e6>>, <<e8, e7>>, <<b1, c3>>, <<a1, b1>> }

\* The calls of Fool's Mate, in order.
FoolsMate == << <<f2, f3>>, <<e7, e5>>, <<g2, g4>>, <<d8, h4>> >>

\* The arguments of the calls of a second game: Fool's Mate, and the black king
\* by e7 and d6 to c6, with the a-pawn on a6.
FoolsMateCalls ==
  { <<f2, f3>>, <<e7, e5>>, <<g2, g4>>, <<d8, h4>>,
    <<e8, e7>>, <<a7, a6>>, <<e7, d6>>, <<d6, c6>> }

\* foolsMate after a call of playLegalMove: k when the calls made on the fresh
\* BoardState are the first k calls of FoolsMate and all were accepted,
\* -2 when the last of them was not accepted, -1 after any other call.
FoolsMateAfter(fromSquare, toSquare, result) ==
  IF foolsMate \in 0..(Len(FoolsMate) - 1)
     /\ <<fromSquare, toSquare>> = FoolsMate[foolsMate + 1]
  THEN IF result = "accepted" THEN foolsMate + 1 ELSE -2
  ELSE -1

Init ==
  /\ position = InitialPosition
  /\ activeColor = "w"
  /\ blackCastleKingsideAvailable = TRUE
  /\ blackCastleQueensideAvailable = TRUE
  /\ whiteCastleKingsideAvailable = TRUE
  /\ whiteCastleQueensideAvailable = TRUE
  /\ twoSquarePawnMove = NoSquare
  /\ numberOfHalfMoves = 0
  /\ numberOfFullMoves = 0
  /\ blackKingSquare = e8
  /\ whiteKingSquare = e1
  /\ lastResult = "new"
  /\ lastMove = [name |-> "new", fromSquare |-> NoSquare, toSquare |-> NoSquare]
  /\ foolsMate = 0
  /\ selectedSquare = null

PlayLegalMove(fromSquare, toSquare) ==
  /\ numberOfFullMoves < MaxMoves
  /\ \E out \in {playLegalMove(This, fromSquare, toSquare)} :
        /\ Becomes(out.state)
        /\ lastResult' = out.result
        /\ lastMove' = IF out.result = "accepted"
                       THEN [name |-> "playLegalMove",
                             fromSquare |-> fromSquare, toSquare |-> toSquare]
                       ELSE lastMove
        /\ foolsMate' = FoolsMateAfter(fromSquare, toSquare, out.result)
        /\ UNCHANGED selectedSquare

PlayPseudoLegalMove(fromSquare, toSquare) ==
  /\ numberOfFullMoves < MaxMoves
  /\ \E out \in {playPseudoLegalMove(This, fromSquare, toSquare)} :
        /\ Becomes(out.state)
        /\ lastResult' = out.result
        /\ lastMove' = IF out.result = "accepted"
                       THEN [name |-> "playPseudoLegalMove",
                             fromSquare |-> fromSquare, toSquare |-> toSquare]
                       ELSE lastMove
        /\ foolsMate' = -1
        /\ UNCHANGED selectedSquare

Next ==
  \/ \E c \in Calls : PlayLegalMove(c[1], c[2])
  \/ \E c \in Calls : PlayPseudoLegalMove(c[1], c[2])

Spec == Init /\ [][Next]_vars

\* A query was called on the BoardState a call of playLegalMove or
\* playPseudoLegalMove has left, or on the fresh one: it leaves the BoardState b.
Queried(b) ==
  /\ lastResult # "query"
  /\ Becomes(b)
  /\ lastResult' = "query"
  /\ UNCHANGED <<lastMove, foolsMate, selectedSquare>>

GetLegalMoves(square) ==
  /\ lastResult # "query"
  /\ \E after \in {After_getLegalMoves(This, square)} : Queried(after)

KingWouldBeInCheck(color, fromSquare, toSquare) ==
  /\ lastResult # "query"
  /\ moveIsPseudoLegal(This, fromSquare, toSquare) = Ret(TRUE)
  /\ \E after \in {After_kingWouldBeInCheck(This, color, fromSquare, toSquare)} :
        Queried(after)

IsCheckmate ==
  /\ lastResult # "query"
  /\ \E after \in {After_isCheckmate(This)} : Queried(after)

IsStalemate ==
  /\ lastResult # "query"
  /\ \E after \in {After_isStalemate(This)} : Queried(after)

\* kingIsInCheck, getPieceOnSquare, squareHasPieceOfActivePlayer and getFEN
\* hold no assignment and call nothing that does.
KingIsInCheck == Queried(This)

GetPieceOnSquare == Queried(This)

SquareHasPieceOfActivePlayer == Queried(This)

GetFEN == Queried(This)

\* The squares the queries of the second game are called with.
QuerySquares == {f2, e7, d8, e8, h4, d6}

NextFoolsMate ==
  \/ \E c \in FoolsMateCalls :
        numberOfFullMoves < MaxFoolsMateMoves /\ PlayLegalMove(c[1], c[2])
  \/ \E c \in FoolsMateCalls :
        numberOfFullMoves < MaxFoolsMateMoves /\ PlayPseudoLegalMove(c[1], c[2])
  \/ \E square \in QuerySquares : GetLegalMoves(square)
  \/ \E color \in {"w", "b"}, c \in FoolsMateCalls :
        KingWouldBeInCheck(color, c[1], c[2])
  \/ IsCheckmate
  \/ IsStalemate
  \/ KingIsInCheck
  \/ GetPieceOnSquare
  \/ SquareHasPieceOfActivePlayer
  \/ GetFEN

SpecFoolsMate == Init /\ [][NextFoolsMate]_vars

\* A third game, played through playPseudoLegalMove alone: the black king
\* walks from e8 to g1 and on to g2, the white rook leaves f1, and the white
\* king castles kingside.  White can also clear f1 and g1 and castle before the
\* black king arrives.
f5 == squareFromFileRank(5, 4)
g3 == squareFromFileRank(6, 2)
g1 == squareFromFileRank(6, 0)
f1 == squareFromFileRank(5, 0)
a2 == squareFromFileRank(0, 1)
a3 == squareFromFileRank(0, 2)
h3 == squareFromFileRank(7, 2)
e3 == squareFromFileRank(4, 2)

KingWalkCalls ==
  { <<e7, e5>>, <<e8, e7>>, <<e7, e6>>, <<e6, f5>>, <<f5, g4>>, <<g4, g3>>,
    <<g3, f2>>, <<f2, g1>>, <<g1, g2>>, <<f1, f3>>, <<e1, g1>>, <<a2, a3>>,
    <<g1, h3>>, <<e2, e3>>, <<f1, e2>> }

KingWalkMove(fromSquare, toSquare) ==
  /\ numberOfFullMoves < MaxKingWalkMoves
  /\ \E out \in {playPseudoLegalMove(This, fromSquare, toSquare)} :
        /\ Becomes(out.state)
        /\ lastResult' = out.result
        /\ lastMove' = IF out.result = "accepted"
                       THEN [name |-> "playPseudoLegalMove",
                             fromSquare |-> fromSquare, toSquare |-> toSquare]
                       ELSE lastMove
        /\ foolsMate' = -1
        /\ UNCHANGED selectedSquare

NextKingWalk == \E c \in KingWalkCalls : KingWalkMove(c[1], c[2])

SpecKingWalk == Init /\ [][NextKingWalk]_vars

c2 == squareFromFileRank(2, 1)
d1 == squareFromFileRank(3, 0)
d2 == squareFromFileRank(3, 1)

\* A fourth game, played through playLegalMove alone: the white e-pawn captures
\* on d5 and opens the diagonal f5-d3, onto which the white king walks.
c8 == squareFromFileRank(2, 7)
d3 == squareFromFileRank(3, 2)

LegalGameCalls ==
  { <<e2, e4>>, <<d7, d5>>, <<e4, d5>>, <<c8, f5>>, <<e1, e2>>, <<e2, d3>>,
    <<a7, a6>>, <<d8, d5>> }

NextLegalGame == \E c \in LegalGameCalls : PlayLegalMove(c[1], c[2])

SpecLegalGame == Init /\ [][NextLegalGame]_vars

\* ChessGame: the board of the page, and the clicks on its squares.  One
\* handleSquareClick is that of standard.js, which reports checkmate and
\* stalemate and plays with playLegalMove; the other is that of app.js, which
\* plays with playPseudoLegalMove.

\* The squares of the page that are clicked.
ClickSquares == {e1, e2, e4, e5, d5, d7, d8, a6, a7}

\* The handler after its report: the selection of a square of the active
\* player, the move from the selected square, or the end of the selection.
\* name is the operation of the BoardState the handler plays the move with.
SelectOrPlay(square, name) ==
  IF squareHasPieceOfActivePlayer(This, square)
  THEN /\ selectedSquare' = square
       /\ lastResult' = IF getLegalMoves(This, square).threw
                        THEN "threw" ELSE "query"
       /\ UNCHANGED <<fields, lastMove, foolsMate>>
  ELSE IF selectedSquare = null
  THEN /\ selectedSquare' = null
       /\ lastResult' = "query"
       /\ UNCHANGED <<fields, lastMove, foolsMate>>
  ELSE \E moves \in {getLegalMoves(This, selectedSquare)} :
         IF moves.threw
         THEN /\ lastResult' = "threw"
              /\ UNCHANGED <<fields, lastMove, foolsMate, selectedSquare>>
         ELSE IF Includes(moves.value, square)
         THEN \E out \in {IF name = "playLegalMove"
                            THEN playLegalMove(This, selectedSquare, square)
                            ELSE playPseudoLegalMove(This, selectedSquare,
                                                     square)} :
                /\ Becomes(out.state)
                /\ lastResult' = out.result
                /\ lastMove' = IF out.result = "accepted"
                               THEN [name |-> name,
                                     fromSquare |-> selectedSquare,
                                     toSquare |-> square]
                               ELSE lastMove
                /\ foolsMate' = IF name = "playLegalMove"
                                THEN FoolsMateAfter(selectedSquare, square,
                                                    out.result)
                                ELSE -1
                /\ selectedSquare' = IF out.result = "threw"
                                     THEN selectedSquare ELSE null
         ELSE /\ selectedSquare' = null
              /\ lastResult' = "query"
              /\ UNCHANGED <<fields, lastMove, foolsMate>>

\* handleSquareClick of standard.js
HandleSquareClickStandard(square) ==
  /\ numberOfFullMoves < MaxClickMoves
  /\ IF isCheckmate(This).threw \/ isStalemate(This).threw
     THEN /\ lastResult' = "threw"
          /\ UNCHANGED <<fields, lastMove, foolsMate, selectedSquare>>
     ELSE SelectOrPlay(square, "playLegalMove")

\* handleSquareClick of app.js
HandleSquareClickApp(square) ==
  /\ numberOfFullMoves < MaxClickMoves
  /\ SelectOrPlay(square, "playPseudoLegalMove")

NextChessGame ==
  \/ \E square \in ClickSquares : HandleSquareClickStandard(square)
  \/ \E square \in ClickSquares : HandleSquareClickApp(square)

SpecChessGame == Init /\ [][NextChessGame]_vars

----------------------------------------------------------------------------
\* Properties

PieceAt(square) == _getPieceOnSquare(This, square)
Pseudo(square) == getPseudoLegalMoves(This, square)
Legal(square) == getLegalMoves(This, square)

\* The last move executed was the advance of a pawn by two ranks to square.
LastMoveWasTwoSquareAdvanceTo(square) ==
  /\ lastMove.toSquare = square
  /\ PieceAt(square)[2] = "p"
  /\ lastMove.fromSquare[1] = square[1]
  /\ rankFromSquare(lastMove.fromSquare) - rankFromSquare(square) \in {-2, 2}

\* square -> d is the move of a pawn to another file and an empty square.
IsEnPassantCapture(square, d) ==
  /\ PieceAt(square)[2] = "p"
  /\ d[1] # square[1]
  /\ PieceAt(d) = ee

\* C1: a call of playLegalMove with toSquare outside getLegalMoves(fromSquare),
\* or of playPseudoLegalMove with toSquare outside the pseudo-legal moves of
\* fromSquare, leaves every field as it was: a call that is not accepted
\* changes no field, and an accepted call was made with a legal
\* (playLegalMove) or pseudo-legal (playPseudoLegalMove) move.
C1_NoOpOnRejection ==
  [][/\ lastResult' # "accepted" => fields' = fields
     /\ lastResult' = "accepted" =>
          IF lastMove'.name = "playLegalMove"
          THEN moveIsLegal(This, lastMove'.fromSquare, lastMove'.toSquare)
                 = Ret(TRUE)
          ELSE moveIsPseudoLegal(This, lastMove'.fromSquare, lastMove'.toSquare)
                 = Ret(TRUE)]_vars

\* A call was rejected in the course of a game.
C1_Witness == lastResult = "rejected" /\ numberOfFullMoves > 2

\* C2: an accepted call leaves the opposite active color, every other call
\* leaves the active color as it was.
C2_TurnAlternation ==
  [][IF lastResult' = "accepted"
     THEN \/ activeColor = "w" /\ activeColor' = "b"
          \/ activeColor = "b" /\ activeColor' = "w"
     ELSE activeColor' = activeColor]_vars

\* Two moves were executed and it is white's turn again.
C2_Witness ==
  lastResult = "accepted" /\ numberOfFullMoves = 2 /\ activeColor = "w"

\* C3: whiteKingSquare holds "wk" and blackKingSquare holds "bk".
C3_KingSquares ==
  PieceAt(whiteKingSquare) = wk /\ PieceAt(blackKingSquare) = bk

\* C4: for every occupied square the pseudo-legal moves read position inside
\* 0..7 x 0..7 only, and the pseudo-legal moves, the legal moves and the check
\* test of either color end without a TypeError.
C4_BoardBounds ==
  /\ \A square \in Squares :
       PieceAt(square) # ee =>
         /\ PseudoLegalReads(This, square) \subseteq (0..7) \X (0..7)
         /\ ~Legal(square).threw
  /\ ~kingIsInCheck(This, "w").threw
  /\ ~kingIsInCheck(This, "b").threw

\* C5: for every square with a piece of color C, getLegalMoves is the
\* pseudo-legal moves after which the king of color C is not in check.
C5_LegalMovesOfOwnKing ==
  \A square \in Squares :
    PieceAt(square) # ee =>
      Let(Legal(square), LAMBDA legal :
        \/ legal.threw
        \/ legal.value
             = SelectSeq(Pseudo(square).value,
                         LAMBDA d : ~kingWouldBeInCheck(This, PieceAt(square)[1],
                                                        square, d).value))

\* C6: every legal move of a square is a pseudo-legal move of it, and an empty
\* square has neither.
C6_SubsetLaw ==
  \A square \in Squares :
    Let(Legal(square), LAMBDA legal :
      Let(Pseudo(square), LAMBDA pseudo :
        /\ ~legal.threw =>
             \A i \in 1..Len(legal.value) : Includes(pseudo.value, legal.value[i])
        /\ PieceAt(square) = ee => legal = Ret(<<>>) /\ pseudo = Ret(<<>>)))

\* A piece has a pseudo-legal move that is not legal.
C6_Witness ==
  \E square \in Squares :
    /\ PieceAt(square) # ee
    /\ Let(Legal(square), LAMBDA legal :
           ~legal.threw /\ Len(legal.value) < Len(Pseudo(square).value))

\* C7: no castling flag changes from false to true.
C7_RightsMonotonic ==
  [][/\ whiteCastleKingsideAvailable' => whiteCastleKingsideAvailable
     /\ whiteCastleQueensideAvailable' => whiteCastleQueensideAvailable
     /\ blackCastleKingsideAvailable' => blackCastleKingsideAvailable
     /\ blackCastleQueensideAvailable' => blackCastleQueensideAvailable]_vars

\* A move that touches neither a1 nor e1 was executed with the white queenside
\* flag false, and e8 was touched before.
C7_Witness ==
  /\ lastResult = "accepted"
  /\ lastMove.fromSquare \notin {a1, e1}
  /\ lastMove.toSquare \notin {a1, e1}
  /\ ~whiteCastleQueensideAvailable
  /\ ~blackCastleKingsideAvailable

\* C8: after an executed move each castling flag is false exactly if it was
\* false or the move starts or ends on the home square of its rook or king.
C8_RevocationRule ==
  [][lastResult' = "accepted" =>
       LET from == lastMove'.fromSquare
           to == lastMove'.toSquare
       IN /\ whiteCastleQueensideAvailable' =
               (whiteCastleQueensideAvailable /\ {from, to} \cap {a1, e1} = {})
          /\ whiteCastleKingsideAvailable' =
               (whiteCastleKingsideAvailable /\ {from, to} \cap {h1, e1} = {})
          /\ blackCastleQueensideAvailable' =
               (blackCastleQueensideAvailable /\ {from, to} \cap {a8, e8} = {})
          /\ blackCastleKingsideAvailable' =
               (blackCastleKingsideAvailable /\ {from, to} \cap {h8, e8} = {})]_vars

\* a1 -> b1 was executed: white queenside is gone, white kingside is not.
C8_Witness ==
  /\ lastResult = "accepted"
  /\ lastMove.fromSquare = a1
  /\ lastMove.toSquare = b1
  /\ ~whiteCastleQueensideAvailable
  /\ whiteCastleKingsideAvailable

\* C9: an en-passant capture is a pseudo-legal or legal move of a pawn only
\* while the last move executed is the two-square advance of the enemy pawn
\* beside it, on the file of the capture's destination.
C9_EnPassantWindow ==
  \A square \in Squares :
    PieceAt(square)[2] = "p" =>
      Let(Pseudo(square).value \o Legal(square).value, LAMBDA moves :
        \A i \in 1..Len(moves) :
          LET d == moves[i]
          IN IsEnPassantCapture(square, d)
             => /\ LastMoveWasTwoSquareAdvanceTo(<<d[1], square[2]>>)
                /\ PieceAt(<<d[1], square[2]>>)[1] # PieceAt(square)[1])

\* The white pawn on e5 may capture the pawn that just advanced to d5.
C9_Witness ==
  /\ PieceAt(e5) = wp
  /\ LastMoveWasTwoSquareAdvanceTo(d5)
  /\ Includes(Legal(e5).value, d6)

\* C10: right after a two-square advance that ends beside an enemy pawn, that
\* pawn's capture en passant is a legal move of it unless it leaves the king of
\* that pawn's color in check.
C10_EnPassantOffer ==
  \A adv \in Squares, df \in {-1, 1} :
    LET file == fileFromSquare(adv) + df
        rank == rankFromSquare(adv)
        square == squareFromFileRank(file, rank)
        fwd == IF PieceAt(square)[1] = "w" THEN 1 ELSE -1
        d == squareFromFileRank(fileFromSquare(adv), rank + fwd)
    IN /\ LastMoveWasTwoSquareAdvanceTo(adv)
       /\ file \in 0..7
       /\ PieceAt(square)[2] = "p"
       /\ PieceAt(square)[1] # PieceAt(adv)[1]
       => \/ Includes(Legal(square).value, d)
          \/ kingWouldBeInCheck(This, PieceAt(square)[1], square, d).value

\* C11: the full-move counter is 0 in a fresh game, an executed move of either
\* color adds exactly 1 to it, and every other call leaves it as it was.
C11_FullMoveCounter ==
  /\ numberOfFullMoves = 0
  /\ [][numberOfFullMoves' =
          IF lastResult' = "accepted"
          THEN numberOfFullMoves + 1 ELSE numberOfFullMoves]_vars

\* Three moves were executed, and then a call was rejected.
C11_Witness == numberOfFullMoves = 3 /\ lastResult = "rejected"

\* C12: after an executed move the half-move clock is 0 exactly if a pawn
\* moved or the destination was occupied or the move was an en-passant capture,
\* and is its previous value plus 1 after every other executed move.
C12_HalfMoveClock ==
  [][lastResult' = "accepted" =>
       LET fromPiece == PieceAt(lastMove'.fromSquare)
           toPiece == PieceAt(lastMove'.toSquare)
           reset == \/ fromPiece[2] = "p"
                    \/ toPiece # ee
                    \/ IsEnPassantCapture(lastMove'.fromSquare,
                                          lastMove'.toSquare)
       IN /\ numberOfHalfMoves' = 0 <=> reset
          /\ ~reset => numberOfHalfMoves' = numberOfHalfMoves + 1]_vars

\* A piece that is not a pawn moved to an empty square, twice in a row.
C12_Witness == lastResult = "accepted" /\ numberOfHalfMoves = 2

\* A call that returned true.
IsTrue(returned) == ~returned.threw /\ returned.value

\* getLegalMoves returns a move for some square of the active color.
ActiveColorHasLegalMove ==
  \E square \in Squares :
    /\ PieceAt(square)[1] = activeColor
    /\ Let(Legal(square), LAMBDA legal : ~legal.threw /\ Len(legal.value) > 0)

\* C13: isCheckmate() is true exactly when the active color has no legal move
\* and its king is in check, isStalemate() is true exactly when it has no legal
\* move and its king is not in check, the two are never true together, and one
\* of them is true exactly when the active color has no legal move.
C13_CheckmateStalemate ==
  Let(isCheckmate(This), LAMBDA mate :
    Let(isStalemate(This), LAMBDA stale :
      Let(ActiveColorHasLegalMove, LAMBDA has :
        Let(IsTrue(kingIsInCheck(This, activeColor)), LAMBDA check :
          /\ IsTrue(mate) <=> (~has /\ check)
          /\ IsTrue(stale) <=> (~has /\ ~check)
          /\ ~(IsTrue(mate) /\ IsTrue(stale))
          /\ (IsTrue(mate) \/ IsTrue(stale)) <=> ~has))))

\* C14: on a fresh BoardState the calls playLegalMove(f2,f3), (e7,e5), (g2,g4),
\* (d8,h4) are all accepted, and after them isCheckmate() is true,
\* isStalemate() is false and the active color is "w".
C14_FoolsMate ==
  /\ foolsMate # -2
  /\ foolsMate = 4 =>
       /\ isCheckmate(This) = Ret(TRUE)
       /\ isStalemate(This) = Ret(FALSE)
       /\ activeColor = "w"

\* The four calls of Fool's Mate were made and accepted.
C14_Witness == foolsMate = 4 /\ lastResult = "accepted"

\* C15: no query changes a field: getLegalMoves, kingWouldBeInCheck,
\* kingIsInCheck, isCheckmate, isStalemate, getPieceOnSquare,
\* squareHasPieceOfActivePlayer and getFEN leave the BoardState as it was, the
\* move of a hypothetical test being played on arrays of the copy alone.
C15_QueriesDoNotMutate ==
  [][lastResult' = "query" => fields' = fields]_vars

\* A query was called after the queen's move to h4, which was executed on
\* copies by the tests of the legal moves before it.
C15_Witness ==
  lastResult = "query" /\ lastMove.toSquare = h4 /\ PieceAt(h4) = bq

\* The parts of the string s between the characters sep.
RECURSIVE Split(_, _)
Split(s, sep) ==
  IF \A i \in 1..Len(s) : s[i] # sep THEN <<s>>
  ELSE LET i == CHOOSE i \in 1..Len(s) :
                  s[i] = sep /\ \A k \in 1..(i - 1) : s[k] # sep
       IN <<SubSeq(s, 1, i - 1)>> \o Split(SubSeq(s, i + 1, Len(s)), sep)

\* rnbqkbnr/pppppppp/8/8/8/8/PPPPPPPP/RNBQKBNR
InitialPlacement ==
  << 114, 110, 98, 113, 107, 98, 110, 114, 47,
     112, 112, 112, 112, 112, 112, 112, 112, 47,
     56, 47, 56, 47, 56, 47, 56, 47,
     80, 80, 80, 80, 80, 80, 80, 80, 47,
     82, 78, 66, 81, 75, 66, 78, 82 >>

\* C16: the first four fields of getFEN() on a fresh BoardState are
\* rnbqkbnr/pppppppp/8/8/8/8/PPPPPPPP/RNBQKBNR, w, KQkq and -.
C16_InitialFEN ==
  lastMove.name = "new" =>
    Let(Split(getFEN(This), 32), LAMBDA parts :
      /\ Len(parts) >= 4
      /\ parts[1] = InitialPlacement
      /\ parts[2] = <<119>>
      /\ parts[3] = <<75, 81, 107, 113>>
      /\ parts[4] = <<45>>)

\* The BoardState is fresh: no move was executed on it.
C16_Witness == lastMove.name = "new" /\ numberOfFullMoves = 0

\* The piece a letter of the placement stands for.
LetterPiece(c) ==
  CASE c = 80 -> wp [] c = 82 -> wr [] c = 78 -> wn
    [] c = 66 -> wb [] c = 81 -> wq [] c = 75 -> wk
    [] c = 112 -> bp [] c = 114 -> br [] c = 110 -> bn
    [] c = 98 -> bb [] c = 113 -> bq [] c = 107 -> bk
    [] OTHER -> <<"?", "?">>

\* The squares one rank of the placement lists, file a first: a digit stands
\* for that many empty squares.
RECURSIVE DecodeRank(_)
DecodeRank(s) ==
  IF s = <<>> THEN <<>>
  ELSE (IF s[1] \in 49..56 THEN [i \in 1..(s[1] - 48) |-> ee]
        ELSE <<LetterPiece(s[1])>>)
       \o DecodeRank(Tail(s))

\* The number a string of decimal digits writes.
RECURSIVE ParseNat(_)
ParseNat(s) ==
  IF Len(s) = 1 THEN s[1] - 48
  ELSE 10 * ParseNat(SubSeq(s, 1, Len(s) - 1)) + (s[Len(s)] - 48)

\* The letters of the castling rights that are available, in the order KQkq.
CastlingLetters ==
  SelectSeq(<<75, 81, 107, 113>>, LAMBDA c :
    \/ c = 75 /\ whiteCastleKingsideAvailable
    \/ c = 81 /\ whiteCastleQueensideAvailable
    \/ c = 107 /\ blackCastleKingsideAvailable
    \/ c = 113 /\ blackCastleQueensideAvailable)

\* C17: getFEN() is six fields separated by single spaces: the placement, the
\* active color, the castling rights, the en-passant field, the half-move
\* clock and the full-move counter.  The placement is ranks 8 to 1 separated
\* by "/", each of 8 squares, with no two counts side by side, and decodes to
\* position; the castling field is the letters of the available rights in the
\* order KQkq, or "-" when there is none.
C17_FENFormat ==
  Let(Split(getFEN(This), 32), LAMBDA parts :
    /\ Len(parts) = 6
    /\ Let(Split(parts[1], 47), LAMBDA ranks :
         /\ Len(ranks) = 8
         /\ \A r \in 1..8 :
              /\ Len(DecodeRank(ranks[r])) = 8
              /\ \A file \in 0..7 :
                   DecodeRank(ranks[r])[file + 1] = position[file][8 - r]
              /\ \A i \in 1..(Len(ranks[r]) - 1) :
                   ~(ranks[r][i] \in 49..56 /\ ranks[r][i + 1] \in 49..56))
    /\ parts[2] = ColorString(activeColor)
    /\ parts[3] = IF CastlingLetters = <<>> THEN <<45>> ELSE CastlingLetters
    /\ parts[4] = twoSquarePawnMove
    /\ \A i \in 1..Len(parts[5]) : parts[5][i] \in 48..57
    /\ ParseNat(parts[5]) = numberOfHalfMoves
    /\ \A i \in 1..Len(parts[6]) : parts[6][i] \in 48..57
    /\ ParseNat(parts[6]) = numberOfFullMoves)

\* A position with runs of empty squares inside a rank, a castling right gone
\* and a two-square advance just made.
C17_Witness ==
  /\ ~whiteCastleQueensideAvailable
  /\ whiteCastleKingsideAvailable
  /\ twoSquarePawnMove = d5
  /\ PieceAt(e5) = wp

\* The piece on square after the step.
PieceAtNext(square) ==
  position'[fileFromSquare(square)][rankFromSquare(square)]

\* C18: after an executed move the destination holds the piece that stood on
\* the source and the source is empty.
C18_PieceRelocation ==
  [][lastResult' = "accepted" =>
       /\ PieceAtNext(lastMove'.toSquare) = PieceAt(lastMove'.fromSquare)
       /\ PieceAtNext(lastMove'.fromSquare) = ee]_vars

\* The square of the destination's file on the source's rank.
BesideOnDestinationFile(fromSquare, toSquare) == <<toSquare[1], fromSquare[2]>>

\* C19: an executed move of a pawn to another file empties the square of the
\* destination's file on the source's rank if the destination was empty (an
\* en-passant capture) and leaves that square as it was if the destination
\* was occupied (an ordinary capture).
C19_EnPassantRemoval ==
  [][lastResult' = "accepted" =>
       LET fromSquare == lastMove'.fromSquare
           toSquare == lastMove'.toSquare
           beside == BesideOnDestinationFile(fromSquare, toSquare)
       IN PieceAt(fromSquare)[2] = "p" /\ fromSquare[1] # toSquare[1] =>
            PieceAtNext(beside) =
              IF PieceAt(toSquare) = ee THEN ee ELSE PieceAt(beside)]_vars

\* The executed move is a castle: a king from the e-file to the c- or g-file
\* of the same rank.
IsCastle(fromSquare, toSquare) ==
  /\ PieceAt(fromSquare)[2] = "k"
  /\ fromSquare[1] = 101
  /\ toSquare[1] \in {99, 103}
  /\ fromSquare[2] = toSquare[2]

\* C20: an executed move of a king that is not a castle changes the source
\* and the destination and no other square, whatever the destination's file.
C20_KingMoveFrame ==
  [][lastResult' = "accepted" =>
       LET fromSquare == lastMove'.fromSquare
           toSquare == lastMove'.toSquare
       IN PieceAt(fromSquare)[2] = "k" /\ ~IsCastle(fromSquare, toSquare) =>
            \A square \in Squares \ {fromSquare, toSquare} :
              PieceAtNext(square) = PieceAt(square)]_vars

\* C21: every accepted call of playLegalMove moves a piece of the color that
\* was active before the call.
C21_TurnEnforcement ==
  [][lastResult' = "accepted" /\ lastMove'.name = "playLegalMove" =>
       PieceAt(lastMove'.fromSquare)[1] = activeColor]_vars

\* The number of squares that hold a piece with the given color and kind,
\* before and after the step.
NumberOf(color, kind) ==
  Cardinality({square \in Squares : PieceAt(square) = <<color, kind>>})
NumberOfNext(color, kind) ==
  Cardinality({square \in Squares : PieceAtNext(square) = <<color, kind>>})

Kinds == {"p", "r", "n", "b", "q", "k"}

\* C22: an executed move takes at most one piece off the board, a piece that
\* leaves the board has the color opposite to the moved piece, and a move to
\* an empty square that is not an en-passant capture takes no piece off.
C22_CapturesRemoveOneEnemyPiece ==
  [][lastResult' = "accepted" =>
       LET fromSquare == lastMove'.fromSquare
           toSquare == lastMove'.toSquare
           mover == PieceAt(fromSquare)[1]
           lost(color) ==
             {kind \in Kinds : NumberOfNext(color, kind) < NumberOf(color, kind)}
           total == Cardinality({square \in Squares : PieceAt(square) # ee})
           totalNext ==
             Cardinality({square \in Squares : PieceAtNext(square) # ee})
       IN /\ totalNext >= total - 1
          /\ lost(mover) = {}
          /\ PieceAt(toSquare) = ee /\ ~IsEnPassantCapture(fromSquare, toSquare)
               => totalNext = total]_vars

\* The home rank of a color, as the character of a square's name.
HomeRank(color) == IF color = "w" THEN 49 ELSE 56

\* The castling flag of a color for a castle to the file toFile.
CastleAvailable(color, toFile) ==
  CASE color = "w" /\ toFile = 103 -> whiteCastleKingsideAvailable
    [] color = "w" /\ toFile = 99 -> whiteCastleQueensideAvailable
    [] color = "b" /\ toFile = 103 -> blackCastleKingsideAvailable
    [] color = "b" /\ toFile = 99 -> blackCastleQueensideAvailable

\* C23: after a king has castled (from e1/e8 to the g- or c-file of its home
\* rank, the right being available before the move), the king is on the
\* destination, a rook of its color is on the f- or d-file square beside it,
\* and the e-file square and the rook's h- or a-file square are empty.
C23_CastleRookRelocation ==
  [][lastResult' = "accepted" =>
       LET fromSquare == lastMove'.fromSquare
           toSquare == lastMove'.toSquare
           color == PieceAt(fromSquare)[1]
           rank == toSquare[2]
           kingside == toSquare[1] = 103
       IN /\ IsCastle(fromSquare, toSquare)
          /\ rank = HomeRank(color)
          /\ CastleAvailable(color, toSquare[1])
          => /\ PieceAtNext(toSquare) = <<color, "k">>
             /\ PieceAtNext(<<IF kingside THEN 102 ELSE 100, rank>>)
                  = <<color, "r">>
             /\ PieceAtNext(fromSquare) = ee
             /\ PieceAtNext(<<IF kingside THEN 104 ELSE 97, rank>>) = ee]_vars

\* C24: while a castling flag is true, the king of that color stands on e1 /
\* e8 and a rook of that color on the rook's home square of that side.
C24_CastlingRightsImplyHomeSquares ==
  /\ whiteCastleKingsideAvailable => PieceAt(e1) = wk /\ PieceAt(h1) = wr
  /\ whiteCastleQueensideAvailable => PieceAt(e1) = wk /\ PieceAt(a1) = wr
  /\ blackCastleKingsideAvailable => PieceAt(e8) = bk /\ PieceAt(h8) = br
  /\ blackCastleQueensideAvailable => PieceAt(e8) = bk /\ PieceAt(a8) = br

\* C25: in a game played through playLegalMove alone, the king of the color
\* that is not active is not in check.
C25_NonActiveKingNotInCheck ==
  kingIsInCheck(This, SwapColor(activeColor)) = Ret(FALSE)

\* A move was executed that left the king of the active color in check.
C25_Witness ==
  /\ lastResult = "accepted"
  /\ kingIsInCheck(This, activeColor) = Ret(TRUE)
  /\ kingIsInCheck(This, SwapColor(activeColor)) = Ret(FALSE)

\* C26: after an executed move twoSquarePawnMove is the destination if the
\* moved piece is a pawn that advanced two ranks, and "-" after any other
\* executed move.
C26_TwoSquarePawnMoveUpdate ==
  [][lastResult' = "accepted" =>
       LET fromSquare == lastMove'.fromSquare
           toSquare == lastMove'.toSquare
           d == rankFromSquare(toSquare) - rankFromSquare(fromSquare)
       IN twoSquarePawnMove' =
            IF PieceAt(fromSquare)[2] = "p" /\ d \in {-2, 2}
            THEN toSquare ELSE NoSquare]_vars

\* After the two-square advance e2-e4, the knight's move from b1 was executed
\* and has left twoSquarePawnMove cleared.
C26_Witness ==
  /\ lastResult = "accepted"
  /\ twoSquarePawnMove = NoSquare
  /\ PieceAt(e4) = wp /\ PieceAt(e2) = ee
  /\ numberOfFullMoves = 3
  /\ lastMove.fromSquare = b1

\* C27: a click never ends in a move the BoardState rejects, and a move
\* executed by a click starts from a square that holds a piece of the active
\* color and ends on one of the legal moves of that square.
C27_ClicksPlayLegalMovesInTurn ==
  [][/\ lastResult' # "rejected"
     /\ lastResult' = "accepted" =>
          LET fromSquare == lastMove'.fromSquare
              toSquare == lastMove'.toSquare
          IN /\ fromSquare = selectedSquare
             /\ PieceAt(fromSquare) # ee
             /\ PieceAt(fromSquare)[1] = activeColor
             /\ ~Legal(fromSquare).threw
             /\ Includes(Legal(fromSquare).value, toSquare)]_vars

\* Clicks have executed a move of each color, the last one through
\* playPseudoLegalMove, and a piece of the active color is selected again.
C27_Witness ==
  /\ numberOfFullMoves >= 2
  /\ lastMove.name = "playPseudoLegalMove"
  /\ PieceAt(lastMove.toSquare)[1] = "b"
  /\ activeColor = "w"
  /\ selectedSquare # null
  /\ PieceAt(selectedSquare)[1] = "w"

\* C28: every pseudo-legal move of an occupied square is a square of the
\* board other than that square, and holds no piece of the color of the piece
\* on that square.
C28_NoSelfCaptureOnBoard ==
  \A square \in Squares :
    PieceAt(square) # ee =>
      Let(Pseudo(square), LAMBDA moves :
        ~moves.threw =>
          \A i \in 1..Len(moves.value) :
            LET d == moves.value[i]
            IN /\ d \in Squares
               /\ d # square
               /\ PieceAt(d)[1] # PieceAt(square)[1])

\* The white king may castle kingside, and the black king, next to the white
\* pawns, may capture one of them.
C28_Witness ==
  /\ PieceAt(e1) = wk
  /\ Includes(Pseudo(e1).value, g1)
  /\ PieceAt(g3) = bk
  /\ Includes(Pseudo(g3).value, f2)
  /\ PieceAt(f2) = wp

\* The moves the rules give the pawn on square: the step forward onto an
\* empty square of the board, the double step from the home rank over an
\* empty square onto an empty square, the forward diagonals that hold a piece
\* of the other color, and the square behind an adjacent en-passant target.
PawnRule(square) ==
  LET file == fileFromSquare(square)
      rank == rankFromSquare(square)
      color == PieceAt(square)[1]
      fwd == IF color = "w" THEN 1 ELSE -1
      home == IF color = "w" THEN 1 ELSE 6
      passantRank == IF color = "w" THEN 4 ELSE 3
      onBoard(f, r) == f \in 0..7 /\ r \in 0..7
      step == IF onBoard(file, rank + fwd) /\ position[file][rank + fwd] = ee
              THEN {<<file, rank + fwd>>} ELSE {}
      double == IF /\ rank = home
                   /\ position[file][rank + fwd] = ee
                   /\ position[file][rank + 2 * fwd] = ee
                THEN {<<file, rank + 2 * fwd>>} ELSE {}
      captures == {<<f, rank + fwd>> : f \in
                     {g \in {file - 1, file + 1} :
                        /\ onBoard(g, rank + fwd)
                        /\ position[g][rank + fwd] # ee
                        /\ position[g][rank + fwd][1] # color}}
      passant == {<<f, rank + fwd>> : f \in
                    {g \in {file - 1, file + 1} :
                       /\ onBoard(g, rank)
                       /\ rank = passantRank
                       /\ twoSquarePawnMove = squareFromFileRank(g, rank)}}
  IN {squareFromFileRank(fr[1], fr[2]) :
        fr \in step \cup double \cup captures \cup passant}

\* The moves returned for the pawn on square are those of the rules.
PawnRuleHolds(square) ==
  Let(Pseudo(square), LAMBDA moves :
    {moves.value[i] : i \in 1..Len(moves.value)} = PawnRule(square))

\* C29: for every pawn on the board the pseudo-legal moves are returned and
\* are exactly the moves the rules give it.
C29_PawnMovesMatchRules ==
  \A square \in Squares :
    PieceAt(square)[2] = "p" =>
      ~Pseudo(square).threw /\ PawnRuleHolds(square)

\* The directions of the rays of a rook and of a bishop.
Orthogonal == {<<1, 0>>, <<-1, 0>>, <<0, 1>>, <<0, -1>>}
Diagonal == {<<1, 1>>, <<1, -1>>, <<-1, -1>>, <<-1, 1>>}

\* The squares met walking outward from square in the directions dirs: a
\* square of the board is met if every square before it on its ray is empty
\* and it holds no piece of the color of the piece on square.
SlideRule(square, dirs) ==
  LET file == fileFromSquare(square)
      rank == rankFromSquare(square)
      color == PieceAt(square)[1]
      met(d, n) ==
        /\ InRange(file + n * d[1], rank + n * d[2])
        /\ position[file + n * d[1]][rank + n * d[2]][1] # color
        /\ \A m \in 1..(n - 1) :
             position[file + m * d[1]][rank + m * d[2]] = ee
  IN {squareFromFileRank(file + dn[2] * dn[1][1], rank + dn[2] * dn[1][2]) :
        dn \in {x \in dirs \X (1..7) : met(x[1], x[2])}}

\* The elements of a sequence, and whether none occurs twice.
Elements(s) == {s[i] : i \in 1..Len(s)}
NoDuplicates(s) == Cardinality(Elements(s)) = Len(s)

\* C30: the pseudo-legal moves of a rook are the squares met on the four
\* orthogonal rays and those of a bishop the squares met on the four
\* diagonal rays; those of a queen are the rook's and the bishop's moves from
\* her square together, none listed twice.
C30_SlidingPieces ==
  \A square \in Squares :
    LET kind == PieceAt(square)[2]
        moves == Pseudo(square).value
        asRook == Elements(getRookPseudoLegalMoves(This, square))
        asBishop == Elements(getBishopPseudoLegalMoves(This, square))
    IN /\ kind = "r" => Elements(moves) = SlideRule(square, Orthogonal)
       /\ kind = "b" => Elements(moves) = SlideRule(square, Diagonal)
       /\ kind = "q" => /\ Elements(moves) = asRook \cup asBishop
                        /\ asRook = SlideRule(square, Orthogonal)
                        /\ asBishop = SlideRule(square, Diagonal)
                        /\ NoDuplicates(moves)

\* The black queen on d5 may capture the pawn on d2 and go no further, and
\* the black bishop is out on f5.
C30_Witness ==
  /\ PieceAt(d5) = bq
  /\ PieceAt(d2) = wp
  /\ Includes(Pseudo(d5).value, d2)
  /\ ~Includes(Pseudo(d5).value, d1)
  /\ PieceAt(f5) = bb
  /\ Includes(Pseudo(f5).value, c2)

\* The number of times x occurs in the sequence s.
Occurrences(s, x) == Cardinality({i \in 1..Len(s) : s[i] = x})

\* d is one step of a king away from square.
OneStep(square, d) ==
  /\ d # square
  /\ fileFromSquare(square) - fileFromSquare(d) \in -1..1
  /\ rankFromSquare(square) - rankFromSquare(d) \in -1..1

\* The squares strictly between the home squares of the king and of the rook
\* of a color, on the side of the file toFile, are empty.
BetweenEmpty(color, toFile) ==
  \A file \in (IF toFile = 103 THEN {5, 6} ELSE {1, 2, 3}) :
    position[file][IF color = "w" THEN 0 ELSE 7] = ee

\* The king on square is offered the castle to the file toFile: the castle
\* square of its back rank is among its pseudo-legal moves, beyond its
\* one-step moves.
CastleOffered(square, toFile) ==
  LET color == PieceAt(square)[1]
      d == <<toFile, HomeRank(color)>>
  IN Occurrences(Pseudo(square).value, d)
       > (IF OneStep(square, d) /\ PieceAt(d)[1] # color THEN 1 ELSE 0)

\* The offer is made exactly when the right is available and the squares
\* between are empty.
CastleOfferedByRightAndEmpty ==
  \A square \in Squares, toFile \in {99, 103} :
    PieceAt(square)[2] = "k" =>
      (CastleOffered(square, toFile) <=>
         /\ CastleAvailable(PieceAt(square)[1], toFile)
         /\ BetweenEmpty(PieceAt(square)[1], toFile))

\* C31: a king is offered a castle exactly when the right of its color and
\* side is available and the squares between king and rook are empty, and a
\* castle that is offered is a legal move of the king whenever the king is
\* not in check on the castle square after the castle.
C31_CastlingOffer ==
  /\ CastleOfferedByRightAndEmpty
  /\ \A square \in Squares, toFile \in {99, 103} :
       LET color == PieceAt(square)[1]
           d == <<toFile, HomeRank(color)>>
       IN /\ PieceAt(square)[2] = "k"
          /\ CastleOffered(square, toFile)
          /\ kingWouldBeInCheck(This, color, square, d) = Ret(FALSE)
          => Includes(Legal(square).value, d)

====
